---- MODULE Spec2Model ----
(***************************************************************************)
(* A model of generate_docs.py: the line-oriented GDScript parser          *)
(* (header parser, declaration dispatcher, property / method / signal /    *)
(* enum sub-parsers) and the hierarchy walk that computes each class       *)
(* document's output path.                                                 *)
(*                                                                         *)
(* Text is modelled character by character: a Python str is a sequence of  *)
(* one-character strings, a file is a sequence of lines, each line ending  *)
(* in "\n" as readline() returns it, and the file position is the number   *)
(* of lines read so far (tell() and seek() are only ever used at line      *)
(* boundaries).  Python's None is the value None below.                    *)
(*                                                                         *)
(* A local of the source that is read more than once is a parameter of a   *)
(* helper operator here rather than a LET definition, so that it is        *)
(* evaluated once.                                                         *)
(***************************************************************************)
EXTENDS Integers, Sequences, FiniteSets, TLC

None == <<"None">>

(***************************************************************************)
(* Python str primitives.                                                  *)
(***************************************************************************)
SpaceChars == {" ", "\t", "\n", "\r"}

Lower == {"a","b","c","d","e","f","g","h","i","j","k","l","m",
          "n","o","p","q","r","s","t","u","v","w","x","y","z"}

Upper == {"A","B","C","D","E","F","G","H","I","J","K","L","M",
          "N","O","P","Q","R","S","T","U","V","W","X","Y","Z"}

Digits == {"0","1","2","3","4","5","6","7","8","9"}

\* the regular expression class \w
WordChars == Lower \cup Upper \cup Digits \cup {"_"}

Min(a, b) == IF a < b THEN a ELSE b

Max(a, b) == IF a > b THEN a ELSE b

\* the least (greatest) element of a finite set of integers, d when it is empty
MinOr(S, d) == IF S = {} THEN d ELSE CHOOSE i \in S : \A j \in S : i <= j

MaxOr(S, d) == IF S = {} THEN d ELSE CHOOSE i \in S : \A j \in S : i >= j

\* a slice bound a of a string of length n, as Python clips it
Clip(a, n) == IF a < 0 THEN Max(n + a, 0) ELSE Min(a, n)

\* s[a:b] with Python's treatment of negative and out-of-range indices
Slice(s, a, b) ==
    IF Clip(a, Len(s)) >= Clip(b, Len(s)) THEN <<>>
    ELSE SubSeq(s, Clip(a, Len(s)) + 1, Clip(b, Len(s)))

\* s[a:]
SliceFrom(s, a) == Slice(s, a, Len(s))

\* s[i] for i >= 0 or i < 0; the caller guards the IndexError
At(s, i) == IF i < 0 THEN s[Len(s) + i + 1] ELSE s[i + 1]

\* str.isspace(): non-empty and all whitespace
isspace(s) == Len(s) > 0 /\ \A i \in 1..Len(s) : s[i] \in SpaceChars

startswith(s, p) == Len(s) >= Len(p) /\ SubSeq(s, 1, Len(p)) = p

endswith(s, p) == Len(s) >= Len(p) /\ SubSeq(s, Len(s) - Len(p) + 1, Len(s)) = p

\* str.find(p): the lowest 0-based index of p in s, or -1
find(s, p) ==
    MinOr({i \in 0..(Len(s) - Len(p)) : SubSeq(s, i + 1, i + Len(p)) = p}, -1)

\* p in s
contains(s, p) == find(s, p) # -1

lstrip(s) ==
    SubSeq(s, MinOr({i \in 1..Len(s) : s[i] \notin SpaceChars}, Len(s) + 1), Len(s))

rstrip(s) ==
    SubSeq(s, 1, MaxOr({i \in 1..Len(s) : s[i] \notin SpaceChars}, 0))

strip(s) == lstrip(rstrip(s))

\* str.replace(old, new) for a non-empty old: leftmost, non-overlapping; i is
\* find(s, old)
RECURSIVE replace(_, _, _)
ReplaceAt(s, old, new, i) ==
    IF i = -1 THEN s
    ELSE SubSeq(s, 1, i) \o new \o replace(SliceFrom(s, i + Len(old)), old, new)

replace(s, old, new) == ReplaceAt(s, old, new, find(s, old))

\* str.removeprefix(p)
removeprefix(s, p) == IF startswith(s, p) THEN SliceFrom(s, Len(p)) ELSE s

\* str.split(sep) for a non-empty separator: always at least one piece; i is
\* find(s, sep)
RECURSIVE splitsep(_, _)
SplitSepAt(s, sep, i) ==
    IF i = -1 THEN <<s>>
    ELSE <<SubSeq(s, 1, i)>> \o splitsep(SliceFrom(s, i + Len(sep)), sep)

splitsep(s, sep) == SplitSepAt(s, sep, find(s, sep))

\* str.split(sep, maxsplit=1)
SplitSep1At(s, sep, i) ==
    IF i = -1 THEN <<s>>
    ELSE <<SubSeq(s, 1, i), SliceFrom(s, i + Len(sep))>>

splitsep1(s, sep) == SplitSep1At(s, sep, find(s, sep))

\* str.split(maxsplit=k) on runs of whitespace; k < 0 is no limit.  Once k
\* splits are made the rest is kept as it stands, trailing whitespace included.
\* t is the text with its leading whitespace skipped, e the end of its first
\* word.
RECURSIVE splitws(_, _)
SplitWordAt(t, k, e) ==
    <<SubSeq(t, 1, e - 1)>> \o splitws(SubSeq(t, e, Len(t)), k - 1)

SplitWord(t, k) ==
    IF t = <<>> THEN <<>>
    ELSE IF k = 0 THEN <<t>>
    ELSE SplitWordAt(t, k, MinOr({i \in 1..Len(t) : t[i] \in SpaceChars}, Len(t) + 1))

splitws(s, k) == SplitWord(lstrip(s), k)

\* str.split()
split(s) == splitws(s, -1)

\* str.splitlines() for "\n" line ends; i is find(s, "\n")
RECURSIVE splitlines(_)
SplitLinesAt(s, i) ==
    IF i = -1 THEN <<s>>
    ELSE <<SubSeq(s, 1, i)>> \o splitlines(SliceFrom(s, i + 1))

splitlines(s) == IF s = <<>> THEN <<>> ELSE SplitLinesAt(s, find(s, <<"\n">>))

\* '\n'.join(parts)
RECURSIVE joinlines(_)
joinlines(parts) ==
    IF parts = <<>> THEN <<>>
    ELSE IF Len(parts) = 1 THEN parts[1]
    ELSE parts[1] \o <<"\n">> \o joinlines(Tail(parts))

\* list.index(x), x being in the list
index(lst, x) == MinOr({i \in 1..Len(lst) : lst[i] = x}, 0) - 1

\* the concatenation of a sequence of strings
RECURSIVE concat(_)
concat(parts) == IF parts = <<>> THEN <<>> ELSE Head(parts) \o concat(Tail(parts))

(***************************************************************************)
(* bbcode_to_md.                                                           *)
(***************************************************************************)
\* no "\n" among s[a..b]: the regular expression . does not match a line end
NoLineEnd(s, a, b) == \A x \in a..b : s[x] # "\n"

\* The matches of  open .* ] .* close  that start at position i (1-based), as
\* pairs <<j, k>>: ] is at j, close starts at k.
TagMatches(s, open, close, i) ==
    IF ~ startswith(SubSeq(s, i, Len(s)), open) THEN {}
    ELSE {jk \in ((i + Len(open))..Len(s)) \X ((i + Len(open))..Len(s)) :
            /\ s[jk[1]] = "]"
            /\ NoLineEnd(s, i + Len(open), jk[1] - 1)
            /\ jk[2] > jk[1]
            /\ NoLineEnd(s, jk[1] + 1, jk[2] - 1)
            /\ startswith(SubSeq(s, jk[2], Len(s)), close)}

\* both .* greedy: the last ] that leaves a match, then the last close
LastClose(ms, j) == <<j, MaxOr({m[2] : m \in {n \in ms : n[1] = j}}, 0)>>

GreedyMatch(ms) == LastClose(ms, MaxOr({m[1] : m \in ms}, 0))

\* re.sub of  open(.*)\](.*)close : the leftmost match is replaced by
\* left \o (second group) \o mid \o (first group) \o right, the first group
\* left out when keepFirst is FALSE, and the search goes on behind the match.
\* fmt is <<open, close, left, mid, right, keepFirst>>.
RECURSIVE TagSub(_, _)
TagReplace(s, fmt, i, jk) ==
    SubSeq(s, 1, i - 1)
      \o fmt[3] \o SubSeq(s, jk[1] + 1, jk[2] - 1) \o fmt[4]
      \o (IF fmt[6] THEN SubSeq(s, i + Len(fmt[1]), jk[1] - 1) ELSE <<>>) \o fmt[5]
      \o TagSub(SubSeq(s, jk[2] + Len(fmt[2]), Len(s)), fmt)

TagSubAt(s, fmt, i) ==
    IF i = 0 THEN s
    ELSE TagReplace(s, fmt, i, GreedyMatch(TagMatches(s, fmt[1], fmt[2], i)))

TagSub(s, fmt) ==
    TagSubAt(s, fmt,
             MinOr({i \in 1..Len(s) : TagMatches(s, fmt[1], fmt[2], i) # {}}, 0))

\* line 14:  \[img.*\](.*)\[\/img\]  ->  ![](\1)
ImgFormat ==
    << <<"[","i","m","g">>, <<"[","/","i","m","g","]">>,
       <<"!","[","]","(">>, <<>>, <<")">>, FALSE >>

\* line 16:  \[url=(.*)\](.*)\[\/url\]  ->  [\2](\1)
UrlFormat ==
    << <<"[","u","r","l","=">>, <<"[","/","u","r","l","]">>,
       <<"[">>, <<"]","(">>, <<")">>, TRUE >>

\* the grave accent character, which a TLA+ string literal cannot hold
Backtick == "grave"

\* simple_tags, in dictionary order: <<tag, replacement>>
simple_tags ==
    << << <<"b">>, <<"*","*">> >>,
       << <<"i">>, <<"_">> >>,
       << <<"s">>, <<"~","~">> >>,
       << <<"c","o","d","e">>, <<Backtick>> >>,
       << <<"c","o","d","e","b","l","o","c","k">>, <<Backtick, Backtick, Backtick>> >>,
       << <<"b","r">>, <<"\n">> >>,
       << <<"u","r","l">>, <<>> >> >>

\* the loop over simple_tags from entry n on
RECURSIVE ReplaceTags(_, _)
ReplaceTags(text, n) ==
    IF n > Len(simple_tags) THEN text
    ELSE ReplaceTags(
           replace(replace(text, <<"[">> \o simple_tags[n][1] \o <<"]">>,
                           simple_tags[n][2]),
                   <<"[","/">> \o simple_tags[n][1] \o <<"]">>, simple_tags[n][2]),
           n + 1)

bbcode_to_md(text) == ReplaceTags(TagSub(TagSub(text, ImgFormat), UrlFormat), 1)

(***************************************************************************)
(* ArgInfo.parse_definition.                                               *)
(***************************************************************************)
\* lines 126-130; raised is whether name, arg_type = ... got other than two
\* pieces
ArgFromColon(arg, default, hasCol, colParts) ==
    [raised |-> hasCol /\ Len(colParts) # 2,
     info   |-> [name    |-> IF hasCol THEN strip(colParts[1]) ELSE arg,
                 type    |-> IF hasCol /\ Len(colParts) > 1
                             THEN strip(colParts[2]) ELSE None,
                 default |-> default]]

ArgFromName(arg, default) ==
    ArgFromColon(arg, default, contains(arg, <<":">>), splitsep(arg, <<":">>))

\* lines 124-125; an unpacking of other than two pieces raises
ArgFromEq(arg, hasEq, eqParts) ==
    IF hasEq /\ Len(eqParts) # 2
    THEN [raised |-> TRUE, info |-> [name |-> arg, type |-> None, default |-> None]]
    ELSE IF hasEq THEN ArgFromName(strip(eqParts[1]), strip(eqParts[2]))
    ELSE ArgFromName(arg, None)

\* one pass of the loop over arg_str.strip().split(',')
ParseArg(arg) == ArgFromEq(arg, contains(arg, <<"=">>), splitsep(arg, <<"=">>))

ArgList(parsed) ==
    [raised |-> \E i \in DOMAIN parsed : parsed[i].raised,
     args   |-> [i \in DOMAIN parsed |-> parsed[i].info]]

ParseArgs(pieces) == ArgList([i \in 1..Len(pieces) |-> ParseArg(pieces[i])])

\* The list of ArgInfo of a definition string.  arg_str.replace('\n', '') on
\* line 119 discards its result, so arg_str keeps its line ends.
parse_definition(definition) ==
    ParseArgs(splitsep(strip(Slice(definition, find(definition, <<"(">>) + 1,
                                   find(definition, <<")">>))),
                       <<",">>))

(***************************************************************************)
(* The sub-parsers.  Each takes the file (script), the position pos reached *)
(* when curr_line had been read, and curr_line, and gives                  *)
(*   info        the entity it returns,                                    *)
(*   pos         the file position it leaves,                              *)
(*   readTo      the position after the last line it read,                 *)
(*   args_lines  the text its argument list was parsed from,               *)
(*   raised      whether it ended in an exception.                         *)
(***************************************************************************)

\* MethodInfo: the loop of lines 157-162.  p is the position, file_pos the
\* checkpoint.  The next line is read and appended before the text is tested
\* for its final colon.
RECURSIVE MethodScan(_, _, _, _, _)
MethodStep(script, p, args_lines, line, file_pos) ==
    IF endswith(rstrip(args_lines), <<":">>)
    THEN [args_lines |-> args_lines, last_line |-> line,
          file_pos |-> file_pos, readTo |-> p + 1]
    ELSE MethodScan(script, p + 1, args_lines, line, p + 1)

MethodScan(script, p, args_lines, last_line, file_pos) ==
    IF p >= Len(script)
    THEN [args_lines |-> args_lines, last_line |-> last_line,
          file_pos |-> file_pos, readTo |-> p]
    ELSE MethodStep(script, p, args_lines \o strip(script[p + 1]), script[p + 1],
                    file_pos)

\* lines 167-170
ReturnType(last_line) ==
    IF contains(last_line, <<"-", ">">>)
    THEN strip(Slice(rstrip(last_line), find(last_line, <<"-", ">">>) + 2, -1))
    ELSE None

\* lines 165-177
MethodResult(curr_line, description, scan, defn) ==
    [info |-> [name |-> strip(Slice(curr_line, find(curr_line, <<" ">>),
                                    find(curr_line, <<"(">>))),
               description |-> description,
               args |-> defn.args,
               return_type |-> ReturnType(scan.last_line)],
     pos        |-> scan.file_pos,
     readTo     |-> scan.readTo,
     args_lines |-> scan.args_lines,
     raised     |-> defn.raised]

MethodFromScan(curr_line, description, scan) ==
    MethodResult(curr_line, description, scan, parse_definition(scan.args_lines))

MethodInfo_parse_from_script(script, pos, curr_line, description) ==
    MethodFromScan(curr_line, description,
                   MethodScan(script, pos, curr_line, curr_line, pos))

\* SignalInfo: the loop of lines 201-205.  The text is tested for its final
\* parenthesis before the line just read is appended.
RECURSIVE SignalScan(_, _, _, _)
SignalScan(script, p, args_lines, file_pos) ==
    IF p >= Len(script)
    THEN [args_lines |-> args_lines, file_pos |-> file_pos, readTo |-> p]
    ELSE IF endswith(rstrip(args_lines), <<")">>)
    THEN [args_lines |-> args_lines, file_pos |-> file_pos, readTo |-> p + 1]
    ELSE SignalScan(script, p + 1, args_lines \o strip(script[p + 1]), p + 1)

\* lines 208-214
SignalResult(curr_line, description, scan, defn) ==
    [info |-> [name |-> strip(Slice(curr_line, find(curr_line, <<" ">>),
                                    find(curr_line, <<"(">>))),
               description |-> description,
               args |-> defn.args],
     pos        |-> scan.file_pos,
     readTo     |-> scan.readTo,
     args_lines |-> scan.args_lines,
     raised     |-> defn.raised]

SignalFromScan(curr_line, description, scan) ==
    SignalResult(curr_line, description, scan, parse_definition(scan.args_lines))

SignalInfo_parse_from_script(script, pos, curr_line, description) ==
    IF contains(curr_line, <<"(">>)
    THEN SignalFromScan(curr_line, description,
                        SignalScan(script, pos, curr_line, pos))
    ELSE SignalResult(curr_line, description,
                      [args_lines |-> <<>>, file_pos |-> pos, readTo |-> pos],
                      [raised |-> FALSE, args |-> <<>>])

(***************************************************************************)
(* PropertyInfo.                                                           *)
(***************************************************************************)
\* the first position >= i of s (1-based) whose character is not in set, or
\* the position after the end: where a greedy \s* or \w+ starting at i ends
SkipWhile(s, i, set) ==
    MinOr({j \in i..Len(s) : s[j] \notin set}, Max(Len(s) + 1, i))

\* s[i], or a value that is no character when i is past the end
CharAt(s, i) == IF i >= 1 /\ i <= Len(s) THEN s[i] ELSE ""

\* the lookahead [gs]et\s*= at position i
LooksLikeAccessor(s, i) ==
    /\ CharAt(s, i) \in {"g", "s"}
    /\ CharAt(s, i + 1) = "e"
    /\ CharAt(s, i + 2) = "t"
    /\ CharAt(s, SkipWhile(s, i + 3, SpaceChars)) = "="

\* re.match of line 66 on curr_line:
\*   var\s+(\w+)(?:\s*\:\s*(?![gs]et\s*=)(\w+))?(?:\s*(\:?\s*\=)\s*(\w+))?\s*(?::(.+))?
\* Every part after the name is optional, so the greedy choice at each part
\* is final.  m is the match so far and m.next the position the next part
\* starts at.

\* var\s+(\w+) : the name is s[n1..n2-1]
NameSpan(s, n1, n2) ==
    [matched |-> startswith(s, <<"v","a","r">>) /\ n1 > 4 /\ n2 > n1,
     name |-> SubSeq(s, n1, n2 - 1), next |-> n2]

NameFrom(s, n1) == NameSpan(s, n1, SkipWhile(s, n1, WordChars))

MatchName(s) == NameFrom(s, SkipWhile(s, 4, SpaceChars))

\* (?:\s*\:\s*(?![gs]et\s*=)(\w+))? : the colon at tc, the type s[t1..t2-1]
TypeSpan(s, m, tc, t1, t2) ==
    IF CharAt(s, tc) = ":" /\ ~ LooksLikeAccessor(s, t1) /\ t2 > t1
    THEN [matched |-> m.matched, name |-> m.name,
          type_hint |-> SubSeq(s, t1, t2 - 1), next |-> t2]
    ELSE [matched |-> m.matched, name |-> m.name,
          type_hint |-> None, next |-> m.next]

TypeFrom(s, m, tc, t1) == TypeSpan(s, m, tc, t1, SkipWhile(s, t1, WordChars))

TypeColon(s, m, tc) == TypeFrom(s, m, tc, SkipWhile(s, tc + 1, SpaceChars))

MatchType(s, m) == TypeColon(s, m, SkipWhile(s, m.next, SpaceChars))

\* (?:\s*(\:?\s*\=)\s*(\w+))? : the operator s[a0..eq], the default s[d1..d2-1]
AssignSpan(s, m, a0, eq, d1, d2) ==
    IF CharAt(s, eq) = "=" /\ d2 > d1
    THEN [matched |-> m.matched, name |-> m.name, type_hint |-> m.type_hint,
          assign_op |-> SubSeq(s, a0, eq), default |-> SubSeq(s, d1, d2 - 1),
          next |-> d2]
    ELSE [matched |-> m.matched, name |-> m.name, type_hint |-> m.type_hint,
          assign_op |-> None, default |-> None, next |-> m.next]

AssignFrom(s, m, a0, eq, d1) ==
    AssignSpan(s, m, a0, eq, d1, SkipWhile(s, d1, WordChars))

AssignEq(s, m, a0, eq) == AssignFrom(s, m, a0, eq, SkipWhile(s, eq + 1, SpaceChars))

AssignOp(s, m, a0) ==
    AssignEq(s, m, a0,
             IF CharAt(s, a0) = ":" THEN SkipWhile(s, a0 + 1, SpaceChars) ELSE a0)

MatchAssign(s, m) == AssignOp(s, m, SkipWhile(s, m.next, SpaceChars))

\* \s*(?::(.+))? : the colon at g0, the group s[g0+1..g2-1]; . matches every
\* character but the line end
SetgetSpan(s, m, g0, g2) ==
    [matched |-> m.matched, name |-> m.name, type_hint |-> m.type_hint,
     assign_op |-> m.assign_op, default |-> m.default,
     setget_def |-> IF CharAt(s, g0) = ":" /\ g2 > g0 + 1
                    THEN SubSeq(s, g0 + 1, g2 - 1) ELSE None]

SetgetFrom(s, m, g0) ==
    SetgetSpan(s, m, g0,
               SkipWhile(s, g0 + 1, {c \in {s[i] : i \in 1..Len(s)} : c # "\n"}))

MatchSetget(s, m) == SetgetFrom(s, m, SkipWhile(s, m.next, SpaceChars))

\* the groups of the match; matched is FALSE where re.match returns None
PropertyMatch(s) == MatchSetget(s, MatchAssign(s, MatchType(s, MatchName(s))))

\* an occurrence of  <word>\s*=\s*\w  at position i, e being where the \s*
\* behind the word ends
AccessorAt(text, word, i, e) ==
    /\ startswith(SubSeq(text, i, Len(text)), word)
    /\ CharAt(text, e) = "="
    /\ CharAt(text, SkipWhile(text, e + 1, SpaceChars)) \in WordChars

\* len(re.findall(r'\s*<word>\s*=\s*(\w+)', text)) > 0 for word set or get
HasInlineAccessor(text, word) ==
    \E i \in 1..Len(text) :
        AccessorAt(text, word, i, SkipWhile(text, i + Len(word), SpaceChars))

PropertyInfo_parse_inline_getset(info, text) ==
    [info EXCEPT
        !.has_setter = @ \/ HasInlineAccessor(text, <<"s","e","t">>),
        !.has_getter = @ \/ HasInlineAccessor(text, <<"g","e","t">>)]

\* lines 73-77: the container placeholders
NormalizeDefault(default) ==
    IF default = None THEN None
    ELSE IF default[1] = "{"
    THEN IF isspace(Slice(default, 0, find(default, <<"}">>)))
         THEN <<"{","}">> ELSE <<"{",".",".",".","}">>
    ELSE IF default[1] = "["
    THEN IF isspace(Slice(default, 0, find(default, <<"]">>)))
         THEN <<"[","]">> ELSE <<"[",".",".",".","]">>
    ELSE default

\* lines 95-98
LeadingAccessor(info, line) ==
    IF startswith(lstrip(line), <<"s","e","t">>) THEN [info EXCEPT !.has_setter = TRUE]
    ELSE IF startswith(lstrip(line), <<"g","e","t">>) THEN [info EXCEPT !.has_getter = TRUE]
    ELSE info

\* the loop of lines 90-100 over the indented lines that follow
RECURSIVE PropertyScan(_, _, _, _)
PropertyScan(script, p, info, file_pos) ==
    IF p >= Len(script)
    THEN [info |-> info, file_pos |-> file_pos, readTo |-> p]
    ELSE IF script[p + 1][1] \notin SpaceChars
    THEN [info |-> info, file_pos |-> file_pos, readTo |-> p + 1]
    ELSE PropertyScan(script, p + 1,
           LeadingAccessor(PropertyInfo_parse_inline_getset(info, script[p + 1]),
                           script[p + 1]),
           p + 1)

PropertyResult(scan) ==
    [info |-> scan.info, pos |-> scan.file_pos, readTo |-> scan.readTo,
     args_lines |-> <<>>, raised |-> FALSE]

\* lines 79-87
PropertyHeader(m, description, default) ==
    IF m.setget_def # None
    THEN PropertyInfo_parse_inline_getset(
           [name |-> m.name, type |-> m.type_hint, description |-> description,
            default |-> default, has_setter |-> FALSE, has_getter |-> FALSE],
           m.setget_def)
    ELSE [name |-> m.name, type |-> m.type_hint, description |-> description,
          default |-> default, has_setter |-> FALSE, has_getter |-> FALSE]

\* m is the match of line 66; .groups() of no match raises
PropertyFromMatch(script, pos, description, onready, m) ==
    IF ~ m.matched
    THEN [info |-> None, pos |-> pos, readTo |-> pos, args_lines |-> <<>>,
          raised |-> TRUE]
    ELSE PropertyResult(
           PropertyScan(script, pos,
             PropertyHeader(m, description,
                            NormalizeDefault(IF onready THEN None ELSE m.default)),
             pos))

PropertyInfo_parse_from_script(script, pos, curr_line, description, onready) ==
    PropertyFromMatch(script, pos, description, onready, PropertyMatch(curr_line))

(***************************************************************************)
(* EnumInfo.                                                               *)
(***************************************************************************)
\* vals[key] = value on a dict kept as a sequence of <<key, value>> in
\* insertion order
DictSet(vals, key, value) ==
    IF \E i \in 1..Len(vals) : vals[i][1] = key
    THEN [i \in 1..Len(vals) |-> IF vals[i][1] = key THEN <<key, value>> ELSE vals[i]]
    ELSE Append(vals, <<key, value>>)

\* dict.fromkeys(keys): every value None
RECURSIVE DictFromKeys(_)
DictFromKeys(keys) ==
    IF keys = <<>> THEN <<>>
    ELSE DictSet(DictFromKeys(SubSeq(keys, 1, Len(keys) - 1)), keys[Len(keys)], None)

\* lines 250-254: vd is line.split('##', maxsplit=1)
EnumMember(info, line, vd) ==
    IF contains(line, <<"#","#">>)
    THEN [info EXCEPT !.vals =
            DictSet(@, replace(strip(vd[1]), <<",">>, <<>>), strip(vd[2]))]
    ELSE [info EXCEPT !.vals = DictSet(@, replace(strip(line), <<",">>, <<>>), None)]

\* the loop of lines 244-254; falling out of it at the end of the file returns
\* None
RECURSIVE EnumScan(_, _, _)
EnumScan(script, p, info) ==
    IF p >= Len(script) THEN [info |-> None, readTo |-> p]
    ELSE IF isspace(script[p + 1]) THEN EnumScan(script, p + 1, info)
    ELSE IF At(rstrip(script[p + 1]), -1) = "}" THEN [info |-> info, readTo |-> p + 1]
    ELSE EnumScan(script, p + 1,
           EnumMember(info, script[p + 1], splitsep1(script[p + 1], <<"#","#">>)))

EnumResult(scan) ==
    [info |-> scan.info, pos |-> scan.readTo, readTo |-> scan.readTo,
     args_lines |-> <<>>, raised |-> FALSE]

\* line 241: the keys are the tuples (val, None)
EnumKeys(values) == [i \in 1..Len(values) |-> <<values[i], None>>]

\* words is curr_line.split(); words[1] of a one-word line raises
EnumFromWords(script, pos, curr_line, description, words) ==
    IF Len(words) < 2
    THEN [info |-> None, pos |-> pos, readTo |-> pos, args_lines |-> <<>>,
          raised |-> TRUE]
    ELSE IF At(rstrip(curr_line), -1) = "}"
    THEN [info |-> [name |-> words[2], description |-> description,
                    vals |-> DictFromKeys(EnumKeys(
                        splitsep(replace(Slice(curr_line,
                                               find(curr_line, <<"{">>) + 1,
                                               find(curr_line, <<"}">>)),
                                         <<" ">>, <<>>),
                                 <<",">>)))],
          pos |-> pos, readTo |-> pos, args_lines |-> <<>>, raised |-> FALSE]
    ELSE EnumResult(EnumScan(script, pos,
            [name |-> words[2], description |-> description, vals |-> <<>>]))

EnumInfo_parse_from_script(script, pos, curr_line, description) ==
    EnumFromWords(script, pos, curr_line, description, split(curr_line))

(***************************************************************************)
(* ClassInfo.parse_script_header.                                          *)
(***************************************************************************)
\* The loop of lines 277-295 from position p on.  st holds the locals and the
\* two fields of class_info the loop sets.  A blank line before the base-class
\* line is skipped without moving the checkpoint file_pos.
RECURSIVE HeaderScan(_, _, _)

\* lines 292-295
HeaderComment(script, p, st, line) ==
    HeaderScan(script, p + 1,
        [st EXCEPT
            !.full_desc = IF startswith(lstrip(line), <<"#","#">>)
                          THEN @ \o strip(SliceFrom(lstrip(line), 2)) \o <<"\n">>
                          ELSE @,
            !.file_pos  = p + 1])

\* lines 288-290: words is line.split(); words[1] of a one-word line raises
HeaderExtends(script, p, st, line, words) ==
    IF ~ startswith(line, <<"e","x","t","e","n","d","s">>)
    THEN HeaderComment(script, p, st, line)
    ELSE IF Len(words) < 2 THEN [st EXCEPT !.raised = TRUE, !.readTo = p + 1]
    ELSE HeaderComment(script, p,
                       [st EXCEPT !.extends = words[2], !.def_found = TRUE], line)

\* lines 284-286: words is line.split(), rest line.split(maxsplit=2)
HeaderName(script, p, st, line, words, rest) ==
    IF ~ startswith(line, <<"c","l","a","s","s","_","n","a","m","e">>)
    THEN HeaderExtends(script, p, st, line, words)
    ELSE IF Len(words) < 2 THEN [st EXCEPT !.raised = TRUE, !.readTo = p + 1]
    ELSE HeaderExtends(script, p, [st EXCEPT !.name = words[2]],
                       rest[Len(rest)], split(rest[Len(rest)]))

\* lines 278-282
HeaderLine(script, p, st, line) ==
    IF st.def_found /\ ~ startswith(lstrip(line), <<"#","#">>)
    THEN [st EXCEPT !.readTo = p + 1]
    ELSE IF isspace(line) THEN HeaderScan(script, p + 1, st)
    ELSE HeaderName(script, p, st, line, split(line), splitws(line, 2))

HeaderScan(script, p, st) ==
    IF p >= Len(script) THEN [st EXCEPT !.readTo = p]
    ELSE HeaderLine(script, p, st, script[p + 1])

\* lines 298-308: summary and description from the comment buffer, ls being
\* full_desc.splitlines().  Only the branch with an empty line converts the
\* markup (lines 306 and 308); line 302 does not.
SummaryOf(full_desc, ls) ==
    IF full_desc = <<>> THEN None
    ELSE IF \A i \in 1..Len(ls) : ls[i] # <<>> THEN strip(full_desc)
    ELSE bbcode_to_md(joinlines(SubSeq(ls, 1, index(ls, <<>>))))

DescriptionOf(full_desc, ls) ==
    IF full_desc = <<>> THEN None
    ELSE IF \A i \in 1..Len(ls) : ls[i] # <<>> THEN None
    ELSE bbcode_to_md(joinlines(SubSeq(ls, index(ls, <<>>) + 2, Len(ls))))

HeaderSummary(full_desc) == SummaryOf(full_desc, splitlines(full_desc))

HeaderDescription(full_desc) == DescriptionOf(full_desc, splitlines(full_desc))

parse_script_header(script) ==
    HeaderScan(script, 0,
        [name |-> None, extends |-> <<>>, full_desc |-> <<>>, def_found |-> FALSE,
         file_pos |-> 0, readTo |-> 0, raised |-> FALSE])

(***************************************************************************)
(* The scripts the model parses: a header followed by at most MaxBlocks    *)
(* blocks of lines.                                                        *)
(***************************************************************************)
MaxBlocks == 2

\* the lines the scripts are made of
Lines ==
    [ class_name |->
        <<"c","l","a","s","s","_","n","a","m","e"," ","F","o","o","\n">>,
      extends |->
        <<"e","x","t","e","n","d","s"," ","B","a","r","\n">>,
      class_extends |->
        <<"c","l","a","s","s","_","n","a","m","e"," ","F","o","o"," ","e","x","t","e","n","d","s"," ","B","a","r","\n">>,
      doc_S |->
        <<"#","#"," ","S","\n">>,
      doc_empty |->
        <<"#","#","\n">>,
      doc_D |->
        <<"#","#"," ","D","\n">>,
      doc_bold |->
        <<"#","#"," ","[","b","]","S","[","/","b","]","\n">>,
      blank |->
        <<"\n">>,
      var |->
        <<"v","a","r"," ","x"," ","="," ","5","\n">>,
      onready_var |->
        <<"@","o","n","r","e","a","d","y"," ","v","a","r"," ","y"," ","="," ","5","\n">>,
      onready |->
        <<"@","o","n","r","e","a","d","y","\n">>,
      var_list0 |->
        <<"v","a","r"," ","e"," ","="," ","[","]","\n">>,
      var_list |->
        <<"v","a","r"," ","l"," ","="," ","[","1",",","2",",","3","]","\n">>,
      var_map0 |->
        <<"v","a","r"," ","m"," ","="," ","{","}","\n">>,
      var_map |->
        <<"v","a","r"," ","d"," ","="," ","{","\"","a","\"",":","1","}","\n">>,
      var_setter |->
        <<"v","a","r"," ","q"," ",":"," ","s","e","t"," ","="," ","f","\n">>,
      getter |->
        <<"\t","g","e","t"," ","="," ","g","\n">>,
      func |->
        <<"f","u","n","c"," ","f","(","a",":"," ","i","n","t",","," ","b"," ","="," ","1",")"," ","-",">"," ","i","n","t",":","\n">>,
      pass |->
        <<"\t","p","a","s","s","\n">>,
      func_open |->
        <<"f","u","n","c"," ","g","(","a",",","\n">>,
      func_close |->
        <<"b",")"," ","-",">"," ","i","n","t",":","\n">>,
      signal |->
        <<"s","i","g","n","a","l"," ","s","(","a",",","b",")","\n">>,
      signal_open |->
        <<"s","i","g","n","a","l"," ","t","(","a",",","\n">>,
      signal_close |->
        <<"b",")","\n">>,
      enum |->
        <<"e","n","u","m"," ","E"," ","{","A",","," ","B","}","\n">>,
      enum_open |->
        <<"e","n","u","m"," ","F"," ","{","\n">>,
      enum_A |->
        <<"\t","A",","," ","#","#"," ","d","\n">>,
      enum_B |->
        <<"\t","B","\n">>,
      enum_close |->
        <<"}","\n">>,
      class_bare |->
        <<"c","l","a","s","s","_","n","a","m","e","\n">>,
      enum_bare |->
        <<"e","n","u","m","\n">>,
      signal_bad |->
        <<"s","i","g","n","a","l"," ","u","(","a"," ","="," ","1"," ","="," ","2",")","\n">> ]

Headers ==
    { <<>>,
      <<Lines.extends>>,
      <<Lines.class_name>>,
      <<Lines.class_name, Lines.extends>>,
      <<Lines.class_extends>>,
      <<Lines.class_name, Lines.extends, Lines.doc_S, Lines.blank, Lines.doc_D>>,
      <<Lines.extends, Lines.doc_S, Lines.doc_empty, Lines.doc_D>>,
      <<Lines.extends, Lines.doc_bold>>,
      <<Lines.class_bare>> }

Blocks ==
    { <<Lines.blank>>, <<Lines.doc_D>>,
      <<Lines.var>>, <<Lines.onready_var>>, <<Lines.onready>>,
      <<Lines.var_list0>>, <<Lines.var_list>>, <<Lines.var_map0>>, <<Lines.var_map>>,
      <<Lines.var_setter, Lines.getter>>,
      <<Lines.func, Lines.pass>>, <<Lines.func_open, Lines.func_close, Lines.pass>>,
      <<Lines.signal>>, <<Lines.signal_open, Lines.signal_close>>, <<Lines.signal_bad>>,
      <<Lines.enum>>, <<Lines.enum_bare>>, <<Lines.enum_open, Lines.enum_A, Lines.enum_B, Lines.enum_close>> }

Bodies == UNION {[1..n -> Blocks] : n \in 0..MaxBlocks}

Scripts == {h \o concat(b) : h \in Headers, b \in Bodies}

(***************************************************************************)
(* The parse of one file: ClassInfo.parse_from_script.                     *)
(*                                                                         *)
(*   script          the file's lines                                      *)
(*   pos             the file position: the number of lines read           *)
(*   pc              "header", "dispatch", "done", or "raised" once an     *)
(*                   exception has ended the parse                         *)
(*   class_info      the ClassInfo being filled                            *)
(*   curr_docstring  the dispatcher's pending doc comment                  *)
(*   full_desc       the header parser's comment buffer                    *)
(*   rewind          the number of lines the step's seek() moved the       *)
(*                   position back from the last line read (0 when the     *)
(*                   step has no seek)                                     *)
(*   journal         one record per sub-parser call, in call order: the    *)
(*                   keyword, the line number of the declaration line, the *)
(*                   effective line, the onready flag, the text the        *)
(*                   argument list was parsed from and the entity returned *)
(***************************************************************************)
VARIABLES script, pos, pc, class_info, curr_docstring, full_desc, rewind, journal

(***************************************************************************)
(* The main program after the command line is read: the registry of lines  *)
(* 411-423 and the hierarchy walk of lines 425-442.                        *)
(*                                                                         *)
(*   docs         the ClassInfo that parse_from_script returns for each    *)
(*                script of the project, in rglob order: file_path (the    *)
(*                parts of the relative path), name, extends               *)
(*   named_only   args.named_only                                          *)
(*   file_idx     the number of scripts registered                         *)
(*   class_infos  the registry, a dict kept as a sequence of               *)
(*                <<identifier, ClassInfo>> in insertion order             *)
(*   class_idx    the number of classes the outer loop has taken           *)
(*   wpc          "register" in the loop of line 414, "next" between two   *)
(*                classes, "walk" inside the while loop, "finished" after  *)
(*                the last class                                           *)
(*   base_class, class_path  the loop's locals; class_path is the list of  *)
(*                the path's parts                                         *)
(*   paths        the parts of md_file_path below output_dir, one per file *)
(*                written, in the order written                            *)
(***************************************************************************)
VARIABLES docs, named_only, file_idx, class_infos, class_idx, wpc, base_class,
          class_path, paths

pvars == <<script, pos, pc, class_info, curr_docstring, full_desc, rewind, journal>>

wvars == <<docs, named_only, file_idx, class_infos, class_idx, wpc, base_class,
           class_path, paths>>

vars == <<pvars, wvars>>

\* ClassInfo(file_path=script_path): the dataclass defaults
NewClassInfo ==
    [name |-> None, extends |-> <<>>, summary |-> None, description |-> None,
     signals |-> <<>>, enums |-> <<>>, properties |-> <<>>, methods |-> <<>>]

\* the main program has not reached the walk
WalkIdle ==
    /\ docs = <<>>
    /\ named_only = FALSE
    /\ file_idx = 0
    /\ class_infos = <<>>
    /\ class_idx = 0
    /\ wpc = "finished"
    /\ base_class = <<>>
    /\ class_path = <<>>
    /\ paths = <<>>

Init ==
    /\ script \in Scripts
    /\ pos = 0
    /\ pc = "header"
    /\ class_info = NewClassInfo
    /\ curr_docstring = <<>>
    /\ full_desc = <<>>
    /\ rewind = 0
    /\ journal = <<>>
    /\ WalkIdle

\* what parse_script_header leaves, h being the state its loop ended in
HeaderDone(h) ==
    IF h.raised
    THEN /\ pc' = "raised"
         /\ UNCHANGED <<pos, class_info, full_desc, rewind>>
    ELSE /\ pc' = "dispatch"
         /\ pos' = h.file_pos
         /\ rewind' = h.readTo - h.file_pos
         /\ full_desc' = h.full_desc
         /\ class_info' = [class_info EXCEPT
                             !.name = h.name,
                             !.extends = h.extends,
                             !.summary = HeaderSummary(h.full_desc),
                             !.description = HeaderDescription(h.full_desc)]

\* ClassInfo.parse_script_header(script, class_info), line 314
ParseHeader ==
    /\ pc = "header"
    /\ HeaderDone(parse_script_header(script))
    /\ UNCHANGED <<script, curr_docstring, journal, wvars>>

\* the line the dispatcher's readline() returns
CurrentLine == script[pos + 1]

IsDocLine(line) == startswith(lstrip(line), <<"#","#">>)

IsLoneAnnotation(line) == startswith(line, <<"@">>) /\ Len(split(line)) = 1

\* lines 325-329: the annotation, and the line with the annotation split off
Annotation(line) ==
    IF startswith(line, <<"@">>) THEN splitws(line, 1)[1] ELSE None

Effective(line) ==
    IF startswith(line, <<"@">>) THEN splitws(line, 1)[2] ELSE line

\* annotation == '@onready', line 339
IsOnready(line) == Annotation(line) = <<"@","o","n","r","e","a","d","y">>

\* line 331
Description == IF curr_docstring # <<>> THEN bbcode_to_md(curr_docstring) ELSE None

\* readline() returns a line
Reading ==
    /\ pc = "dispatch"
    /\ pos < Len(script)

\* the line reaches the keyword tests of lines 332-345
Dispatched ==
    /\ Reading
    /\ ~ isspace(CurrentLine)
    /\ ~ IsDocLine(CurrentLine)
    /\ ~ IsLoneAnnotation(CurrentLine)

Keyword(line) ==
    IF startswith(line, <<"s","i","g","n","a","l">>) THEN "signal"
    ELSE IF startswith(line, <<"e","n","u","m">>) THEN "enum"
    ELSE IF startswith(line, <<"v","a","r">>) THEN "var"
    ELSE IF startswith(line, <<"f","u","n","c">>) THEN "func"
    ELSE "other"

\* lines 318-319
SkipBlank ==
    /\ Reading
    /\ isspace(CurrentLine)
    /\ pos' = pos + 1
    /\ rewind' = 0
    /\ UNCHANGED <<script, pc, class_info, curr_docstring, full_desc, journal, wvars>>

\* lines 321-323
DocLine ==
    /\ Reading
    /\ ~ isspace(CurrentLine)
    /\ IsDocLine(CurrentLine)
    /\ curr_docstring' = curr_docstring \o lstrip(SliceFrom(CurrentLine, 2))
    /\ pos' = pos + 1
    /\ rewind' = 0
    /\ UNCHANGED <<script, pc, class_info, full_desc, journal, wvars>>

\* lines 326-328: a line holding an annotation alone; the annotation is
\* dropped and the pending doc comment kept
LoneAnnotation ==
    /\ Reading
    /\ ~ isspace(CurrentLine)
    /\ ~ IsDocLine(CurrentLine)
    /\ IsLoneAnnotation(CurrentLine)
    /\ pos' = pos + 1
    /\ rewind' = 0
    /\ UNCHANGED <<script, pc, class_info, curr_docstring, full_desc, journal, wvars>>

\* what a sub-parser call leaves: r is the sub-parser's result, field the list
\* of class_info the entity is appended to, line the dispatcher's line
AfterCall(r, op, field, line) ==
    IF r.raised
    THEN /\ pc' = "raised"
         /\ UNCHANGED <<pos, class_info, curr_docstring, rewind, journal>>
    ELSE /\ pc' = pc
         /\ pos' = r.pos
         /\ rewind' = r.readTo - r.pos
         /\ class_info' = [class_info EXCEPT ![field] = Append(@, r.info)]
         /\ curr_docstring' = <<>>
         /\ journal' = Append(journal,
                [op |-> op, idx |-> pos + 1, line |-> Effective(line),
                 onready |-> IsOnready(line), text |-> r.args_lines,
                 info |-> r.info])

\* lines 332-333
DispatchSignal ==
    /\ Dispatched
    /\ Keyword(Effective(CurrentLine)) = "signal"
    /\ AfterCall(SignalInfo_parse_from_script(script, pos + 1,
                     Effective(CurrentLine), Description),
                 "signal", "signals", CurrentLine)
    /\ UNCHANGED <<script, full_desc, wvars>>

\* lines 334-335
DispatchEnum ==
    /\ Dispatched
    /\ Keyword(Effective(CurrentLine)) = "enum"
    /\ AfterCall(EnumInfo_parse_from_script(script, pos + 1,
                     Effective(CurrentLine), Description),
                 "enum", "enums", CurrentLine)
    /\ UNCHANGED <<script, full_desc, wvars>>

\* lines 336-341
DispatchVar ==
    /\ Dispatched
    /\ Keyword(Effective(CurrentLine)) = "var"
    /\ AfterCall(PropertyInfo_parse_from_script(script, pos + 1,
                     Effective(CurrentLine), Description, IsOnready(CurrentLine)),
                 "var", "properties", CurrentLine)
    /\ UNCHANGED <<script, full_desc, wvars>>

\* lines 342-345
DispatchFunc ==
    /\ Dispatched
    /\ Keyword(Effective(CurrentLine)) = "func"
    /\ AfterCall(MethodInfo_parse_from_script(script, pos + 1,
                     Effective(CurrentLine), Description),
                 "func", "methods", CurrentLine)
    /\ UNCHANGED <<script, full_desc, wvars>>

\* a line none of the four keywords starts: only line 347 acts
DispatchOther ==
    /\ Dispatched
    /\ Keyword(Effective(CurrentLine)) = "other"
    /\ pos' = pos + 1
    /\ rewind' = 0
    /\ curr_docstring' = <<>>
    /\ UNCHANGED <<script, pc, class_info, full_desc, journal, wvars>>

\* readline() returns '' and parse_from_script returns class_info
Finish ==
    /\ pc = "dispatch"
    /\ pos >= Len(script)
    /\ pc' = "done"
    /\ rewind' = 0
    /\ UNCHANGED <<script, pos, class_info, curr_docstring, full_desc, journal, wvars>>

Next ==
    \/ ParseHeader
    \/ SkipBlank
    \/ DocLine
    \/ LoneAnnotation
    \/ DispatchSignal
    \/ DispatchEnum
    \/ DispatchVar
    \/ DispatchFunc
    \/ DispatchOther
    \/ Finish

Spec == Init /\ [][Next]_vars

(***************************************************************************)
(* Properties of one file's parse, checked under Spec.                     *)
(***************************************************************************)
\* the text after the first "=" of a declaration line
DeclaredDefault(line) == strip(SliceFrom(line, find(line, <<"=">>) + 1))

\* the placeholder of a bracketed default token d
Placeholder(d) ==
    IF d[1] = "["
    THEN IF Len(d) = 2 \/ isspace(SubSeq(d, 2, Len(d) - 1))
         THEN <<"[","]">> ELSE <<"[",".",".",".","]">>
    ELSE IF Len(d) = 2 \/ isspace(SubSeq(d, 2, Len(d) - 1))
         THEN <<"{","}">> ELSE <<"{",".",".",".","}">>

IsBracketed(d) ==
    /\ Len(d) >= 2
    /\ \/ d[1] = "[" /\ d[Len(d)] = "]"
       \/ d[1] = "{" /\ d[Len(d)] = "}"

\* C2: every property declared `var <name> = <default>` without the onready
\* marker whose default is a list or a map literal reports the placeholder of
\* that literal ([], [...], {} or {...}) as its default, never an absent one.
C2_DefaultPlaceholder ==
    \A j \in 1..Len(journal) :
        ( /\ journal[j].op = "var"
          /\ ~ journal[j].onready
          /\ contains(journal[j].line, <<"=">>)
          /\ IsBracketed(DeclaredDefault(journal[j].line)) )
        => journal[j].info.default = Placeholder(DeclaredDefault(journal[j].line))

\* the line before line idx holds the onready marker alone
MarkerBefore(idx) ==
    /\ idx > 1
    /\ strip(script[idx - 1]) = <<"@","o","n","r","e","a","d","y">>

\* C3: every property whose declaration carries the onready marker, on the
\* line of the var keyword or on the line before it, has an absent default.
C3_OnreadyNoDefault ==
    \A j \in 1..Len(journal) :
        ( /\ journal[j].op = "var"
          /\ journal[j].onready \/ MarkerBefore(journal[j].idx) )
        => journal[j].info.default = None

IsCommentLine(line) == startswith(lstrip(line), <<"#">>)

IsDeclarationLine(line) == Keyword(Effective(line)) # "other"

\* no comment line comes before the first declaration line of the script
NoCommentBeforeDeclaration ==
    \A i \in 1..Len(script) :
        IsCommentLine(script[i])
        => \E k \in 1..(i - 1) : IsDeclarationLine(script[k])

\* C4: a script with no comment line before its first declaration line ends
\* the parse with summary and description both unset, with or without a
\* base-class line.
C4_NoHeaderCommentNoSummary ==
    (pc = "done" /\ NoCommentBeforeDeclaration)
    => (class_info.summary = None /\ class_info.description = None)

\* the header of the example: class_name Foo / extends Bar / ## S / blank / ## D
ExampleHeader == <<Lines.class_name, Lines.extends, Lines.doc_S, Lines.blank, Lines.doc_D>>

HasBlankLine(buffer) == \E i \in 1..Len(splitlines(buffer)) : splitlines(buffer)[i] = <<>>

\* C5: after the header, a comment buffer with a blank line gives the
\* markup-converted text before it as summary and after it as description; a
\* buffer without one gives the markup-converted buffer as summary and no
\* description; the example header gives name Foo, extends Bar, summary S and
\* description D.
C5_HeaderResult ==
    pc \in {"dispatch", "done"} =>
        /\ (full_desc # <<>> /\ ~ HasBlankLine(full_desc)) =>
               /\ class_info.summary = bbcode_to_md(strip(full_desc))
               /\ class_info.description = None
        /\ (full_desc # <<>> /\ HasBlankLine(full_desc)) =>
               /\ class_info.summary = HeaderSummary(full_desc)
               /\ class_info.description = HeaderDescription(full_desc)
        /\ (Len(script) >= Len(ExampleHeader)
            /\ SubSeq(script, 1, Len(ExampleHeader)) = ExampleHeader) =>
               /\ class_info.name = <<"F","o","o">>
               /\ class_info.extends = <<"B","a","r">>
               /\ class_info.summary = <<"S">>
               /\ class_info.description = <<"D">>

\* C6: the argument list of every method and signal is the one parsed from
\* its parameter text joined into one line, however many lines it was
\* written on.
C6_ArgsLineInvariant ==
    \A j \in 1..Len(journal) :
        ( /\ journal[j].op \in {"func", "signal"}
          /\ contains(journal[j].line, <<"(">>) )
        => journal[j].info.args =
               parse_definition(replace(journal[j].text, <<"\n">>, <<>>)).args

\* C8: no seek of the header parser or of a sub-parser moves the position
\* back by more than one line.
C8_RewindAtMostOneLine == rewind <= 1

\* the line numbers, in source order, of the unindented declaration lines of
\* the given kind after line number from
RECURSIVE DeclarationLines(_, _)
DeclarationLines(kind, from) ==
    IF from >= Len(script) THEN <<>>
    ELSE IF /\ ~ isspace(<<script[from + 1][1]>>)
            /\ ~ IsLoneAnnotation(script[from + 1])
            /\ Keyword(Effective(script[from + 1])) = kind
    THEN <<from + 1>> \o DeclarationLines(kind, from + 1)
    ELSE DeclarationLines(kind, from + 1)

\* the line numbers of the sub-parser calls of the given kind, in call order
RECURSIVE DispatchedLines(_, _)
DispatchedLines(kind, j) ==
    IF j > Len(journal) THEN <<>>
    ELSE IF journal[j].op = kind
    THEN <<journal[j].idx>> \o DispatchedLines(kind, j + 1)
    ELSE DispatchedLines(kind, j + 1)

\* C9: in a script whose header has a base-class line, every unindented
\* signal, enum, var and func declaration line after the header produces
\* exactly one entity of its kind, and each list is in source order.
C9_EveryDeclarationDispatched ==
    (pc = "done" /\ class_info.extends # <<>>) =>
        \A kind \in {"signal", "enum", "var", "func"} :
            /\ DispatchedLines(kind, 1) =
                   DeclarationLines(kind, parse_script_header(script).file_pos)
            /\ Len(class_info[CASE kind = "signal" -> "signals"
                                [] kind = "enum"   -> "enums"
                                [] kind = "var"    -> "properties"
                                [] kind = "func"   -> "methods"])
                   = Len(DispatchedLines(kind, 1))

\* the number of the first line from idx on that ends in a colon: the final
\* line of the signature that starts at line idx (0 if there is none)
RECURSIVE SignatureEnd(_)
SignatureEnd(idx) ==
    IF idx > Len(script) THEN 0
    ELSE IF endswith(rstrip(script[idx]), <<":">>) THEN idx
    ELSE SignatureEnd(idx + 1)

\* the text between the arrow and the trailing colon of a signature line
DeclaredReturn(line) ==
    IF contains(line, <<"-",">">>)
    THEN strip(Slice(rstrip(line), find(line, <<"-",">">>) + 2, -1))
    ELSE None

\* C10: the return type of every method is the text between the arrow and
\* the trailing colon of the final line of its own signature, and is absent
\* exactly when that line has no arrow.
C10_ReturnTypeOfSignature ==
    \A j \in 1..Len(journal) :
        (journal[j].op = "func" /\ SignatureEnd(journal[j].idx) > 0)
        => journal[j].info.return_type =
               DeclaredReturn(script[SignatureEnd(journal[j].idx)])

(***************************************************************************)
(* The registry and the hierarchy walk.                                    *)
(***************************************************************************)
NumClasses == 3

MaxWalk == 4

\* the scripts of the project: relative path, declared name
ScriptFiles ==
    << [file_path |-> << <<"a",".","g","d">> >>, name |-> <<"A">>],
       [file_path |-> << <<"b",".","g","d">> >>, name |-> <<"B">>],
       [file_path |-> << <<"c",".","g","d">> >>, name |-> <<"C">>],
       [file_path |-> << <<"d">>, <<"b",".","g","d">> >>, name |-> None],
       [file_path |-> << <<"e",".","g","d">> >>, name |-> <<"A">>] >>

\* the base-class references: none, an engine type, the declared names and a
\* quoted script path
References ==
    { <<>>,
      <<"N","o","d","e">>,
      <<"A">>, <<"B">>, <<"C">>,
      <<"\"","r","e","s",":","/","/","d","/","b",".","g","d","\"">> }

\* the increasing index sequences of length n into ScriptFiles
Choices(n) ==
    {c \in [1..n -> 1..Len(ScriptFiles)] : \A i \in 1..(n - 1) : c[i] < c[i + 1]}

Projects ==
    UNION { { [i \in 1..n |-> [file_path |-> ScriptFiles[c[i]].file_path,
                               name      |-> ScriptFiles[c[i]].name,
                               extends   |-> e[i]]] :
                c \in Choices(n), e \in [1..n -> References] } :
            n \in 1..NumClasses }

\* one file's parse is over
ParseIdle ==
    /\ script = <<>>
    /\ pos = 0
    /\ pc = "done"
    /\ class_info = NewClassInfo
    /\ curr_docstring = <<>>
    /\ full_desc = <<>>
    /\ rewind = 0
    /\ journal = <<>>

InitWalk ==
    /\ ParseIdle
    /\ docs \in Projects
    /\ named_only \in BOOLEAN
    /\ file_idx = 0
    /\ class_infos = <<>>
    /\ class_idx = 0
    /\ wpc = "register"
    /\ base_class = <<>>
    /\ class_path = <<>>
    /\ paths = <<>>

\* '-'.join(parts)
RECURSIVE JoinWith(_, _)
JoinWith(parts, sep) ==
    IF parts = <<>> THEN <<>>
    ELSE IF Len(parts) = 1 THEN parts[1]
    ELSE parts[1] \o sep \o JoinWith(Tail(parts), sep)

\* key in class_infos
InRegistry(registry, key) == \E i \in 1..Len(registry) : registry[i][1] = key

\* class_infos[key]
Lookup(registry, key) ==
    registry[CHOOSE i \in 1..Len(registry) : registry[i][1] = key][2]

\* lines 418-423 for one script
RegisterScript ==
    /\ wpc = "register"
    /\ file_idx < Len(docs)
    /\ file_idx' = file_idx + 1
    /\ class_infos' =
         IF docs[file_idx + 1].name # None
         THEN DictSet(class_infos, docs[file_idx + 1].name, docs[file_idx + 1])
         ELSE IF ~ named_only
         THEN DictSet(class_infos,
                      JoinWith(docs[file_idx + 1].file_path, <<"-">>),
                      docs[file_idx + 1])
         ELSE class_infos
    /\ UNCHANGED <<pvars, docs, named_only, class_idx, wpc, base_class, class_path, paths>>

\* the loop of line 414 is over
EndRegister ==
    /\ wpc = "register"
    /\ file_idx = Len(docs)
    /\ wpc' = "next"
    /\ UNCHANGED <<pvars, docs, named_only, file_idx, class_infos, class_idx,
                   base_class, class_path, paths>>

\* the parts of Path(s) for a relative s: the pieces between separators, the
\* empty ones and the "." ones dropped
RECURSIVE PathFilter(_)
PathFilter(pieces) ==
    IF pieces = <<>> THEN <<>>
    ELSE IF pieces[1] = <<>> \/ pieces[1] = <<".">> THEN PathFilter(Tail(pieces))
    ELSE <<pieces[1]>> \o PathFilter(Tail(pieces))

PathParts(s) == PathFilter(splitsep(s, <<"/">>))

\* line 431-433, unquoted being base_class without its quotes
NormalizeUnquoted(ref, unquoted) ==
    IF endswith(unquoted, <<".","g","d">>)
    THEN replace(removeprefix(unquoted, <<"r","e","s",":","/","/">>), <<"/">>, <<"-">>)
    ELSE ref

Normalize(ref) ==
    NormalizeUnquoted(ref, replace(replace(ref, <<"\"">>, <<>>), <<"'">>, <<>>))

\* the join with its operands exchanged
JoinpathAppended(base, path) == path \o PathParts(base)

\* line 435: Path(base_class).joinpath(class_path)
Joinpath(base, path) == PathParts(base) \o path

\* lines 425-429: the outer loop takes the next class
StartClass ==
    /\ wpc = "next"
    /\ class_idx < Len(class_infos)
    /\ class_idx' = class_idx + 1
    /\ class_path' = <<>>
    /\ base_class' = class_infos[class_idx + 1][2].extends
    /\ wpc' = "walk"
    /\ UNCHANGED <<pvars, docs, named_only, file_idx, class_infos, paths>>

\* lines 431-440, one pass of the while loop that does not break
Ascend ==
    /\ wpc = "walk"
    /\ Len(class_path) < MaxWalk
    /\ InRegistry(class_infos, Normalize(base_class))
    /\ class_path' = Joinpath(Normalize(base_class), class_path)
    /\ base_class' = Lookup(class_infos, Normalize(base_class)).extends
    /\ UNCHANGED <<pvars, docs, named_only, file_idx, class_infos, class_idx, wpc, paths>>

\* lines 431-438 and 442-444: the pass that breaks, and the file written
WriteFile ==
    /\ wpc = "walk"
    /\ ~ InRegistry(class_infos, Normalize(base_class))
    /\ base_class' = Normalize(base_class)
    /\ class_path' = Joinpath(Normalize(base_class), class_path)
    /\ paths' = Append(paths,
                       class_path' \o
                       PathParts(class_infos[class_idx][1] \o <<".","m","d">>))
    /\ wpc' = "next"
    /\ UNCHANGED <<pvars, docs, named_only, file_idx, class_infos, class_idx>>

\* the loop of line 425 is over
EndWalk ==
    /\ wpc = "next"
    /\ class_idx = Len(class_infos)
    /\ wpc' = "finished"
    /\ UNCHANGED <<pvars, docs, named_only, file_idx, class_infos, class_idx,
                   base_class, class_path, paths>>

NextWalk ==
    \/ RegisterScript
    \/ EndRegister
    \/ StartClass
    \/ Ascend
    \/ WriteFile
    \/ EndWalk

SpecWalk == InitWalk /\ [][NextWalk]_vars

(***************************************************************************)
(* Properties of the hierarchy walk, checked under SpecWalk.               *)
(***************************************************************************)
\* the identifiers of the parsed ancestors reached from the reference ref,
\* nearest first, following at most fuel references
RECURSIVE Ancestors(_, _)
Ancestors(ref, fuel) ==
    IF fuel = 0 \/ ~ InRegistry(class_infos, Normalize(ref)) THEN <<>>
    ELSE <<Normalize(ref)>> \o
         Ancestors(Lookup(class_infos, Normalize(ref)).extends, fuel - 1)

\* the first reference of the chain from ref on that names no parsed class
RECURSIVE Terminal(_, _)
Terminal(ref, fuel) ==
    IF fuel = 0 \/ ~ InRegistry(class_infos, Normalize(ref)) THEN Normalize(ref)
    ELSE Terminal(Lookup(class_infos, Normalize(ref)).extends, fuel - 1)

Reverse(seq) == [i \in 1..Len(seq) |-> seq[Len(seq) + 1 - i]]

\* the file name of the i-th class of the registry
FileName(i) == PathParts(class_infos[i][1] \o <<".","m","d">>)

RootMostFirst(i) ==
    Reverse(Ancestors(class_infos[i][2].extends, Len(class_infos)))

TerminalOf(i) == Terminal(class_infos[i][2].extends, Len(class_infos))

\* C1 (amended): the path of every file written is the terminal reference of
\* the class's chain (the first one that names no parsed class) when it is
\* not empty, then the identifiers of the parsed ancestors root-most first,
\* then the class's identifier with the extension.
C1_AncestorPath ==
    \A i \in 1..Len(paths) :
        paths[i] = PathParts(TerminalOf(i)) \o RootMostFirst(i) \o FileName(i)

\* a file is written below an unresolved engine type and a parsed ancestor
C1_Witness ==
    \E i \in 1..Len(paths) :
        /\ Len(paths[i]) = 3
        /\ paths[i][1] = <<"N","o","d","e">>
        /\ paths[i][2] = class_infos[i][2].extends
        /\ InRegistry(class_infos, paths[i][2])

\* C1 (as claimed): the ancestor part of every path is the identifiers of the
\* parsed ancestors root-most first, and a terminal reference that is neither
\* a parsed class nor a script path adds no segment.
C1_NoSegmentForUnresolved ==
    \A i \in 1..Len(paths) :
        paths[i] =
            (IF endswith(TerminalOf(i), <<".","g","d">>)
             THEN PathParts(TerminalOf(i)) ELSE <<>>)
            \o RootMostFirst(i) \o FileName(i)

\* the walk is at an identifier it has been at: the class resolved or one of
\* the ancestors already in class_path
Repeated ==
    /\ wpc = "walk"
    /\ InRegistry(class_infos, Normalize(base_class))
    /\ \/ Normalize(base_class) = class_infos[class_idx][1]
       \/ \E k \in 1..Len(class_path) : class_path[k] = Normalize(base_class)

\* C7: a walk that comes to a repeated identifier ends there instead of
\* going round the cycle.
C7_CycleEndsWalk == [][Repeated => wpc' # "walk"]_vars

====
